---- MODULE Spec2Model ----
(***************************************************************************)
(* Cursor / viewport coordination of the wlte editor shell.                *)
(*                                                                         *)
(* Pixel quantities that the code holds in floating point (f32 cell        *)
(* metrics, f64 scroll offsets, wheel deltas) are counted in half pixels,  *)
(* "units".  Cell positions, viewport sizes and resize sizes are whole     *)
(* numbers (u32) as in the code; Units converts whole pixels to units.     *)
(***************************************************************************)
EXTENDS Integers, Sequences, FiniteSets, TLC

\* ------------------------------------------------------------------ bounds
MaxLines == 2        \* buffers hold at most this many lines
MaxLineLen == 2      \* a line holds at most this many grapheme clusters
MaxScroll == 2       \* scroll commands keep |scroll offset| within this many units
MaxView == 2         \* largest window edge a resize reports, in pixels
MaxStreak == 15      \* repetitions of one cursor command that are counted
MaxFileLen == 3      \* a file on disk holds at most this many characters

\* cap on the cursor row, which grows without bound on an empty buffer
MaxRow == MaxLines

\* ------------------------------------------------------------- state
VARIABLES
    lines,                        \* Buffer::lines, a sequence of lines (sequences of graphemes)
    file_path,                    \* Buffer::file_path, None or Some(path)
    cell_size,                    \* result of get_single_cell_size(), in units
    cursor_pos,                   \* App::cursor_pos  [x |-> column, y |-> row]
    cursor_previous_line_x_pos,   \* App::cursor_previous_line_x_pos, None or Some(x)
    viewport,                     \* View::viewport, in pixels
    scroll_offset,                \* View::scroll_offset, in units
    text,                         \* App::text: the last event formatted for display
    panicked,                     \* the process died in an arithmetic-overflow panic
    prev,                         \* history: cursor and sticky column before the last handled event
    run,                          \* history: None, or Some(column before the first move of the
                                  \* current run of consecutive vertical commands)
    streak,                       \* history: the commands executed since the initial state
    startup,                      \* App::run: the command-line argument and what the disk holds
                                  \* at that path, with the stage of the construction
    state,                        \* BaseApp::state, Suspended(cached_window) or Active(window)
    redraw_requested,             \* Window::request_redraw was called and no frame drawn since
    exiting,                      \* ActiveEventLoop::exit was called
    delivered,                    \* history: None, or the window id and the type of the last
                                  \* window event the event loop delivered
    windows_created,              \* history: the calls of create_winit_window so far
    surface_created               \* history: the last step called create_vello_surface

handler_vars == <<lines, file_path, cell_size, cursor_pos, cursor_previous_line_x_pos, viewport,
                  scroll_offset, text, panicked, prev, run, streak, startup>>
window_vars == <<state, redraw_requested, exiting, delivered, windows_created, surface_created>>
vars == <<lines, file_path, cell_size, cursor_pos, cursor_previous_line_x_pos, viewport,
          scroll_offset, text, panicked, prev, run, streak, startup,
          state, redraw_requested, exiting, delivered, windows_created, surface_created>>

\* ------------------------------------------------------------- helpers
None == <<>>
Some(v) == <<v>>

Min(a, b) == IF a <= b THEN a ELSE b
Max(a, b) == IF a >= b THEN a ELSE b

\* u32::saturating_sub
saturating_sub(a, b) == IF a >= b THEN a - b ELSE 0

\* `as f64` / `as f32` of a whole number of pixels, in units
Units(px) == 2 * px

\* variant: the cast to u32 without the rounding up
Ceil_Truncated(v) == v \div 2

\* f32::ceil of a value held in units, as a whole number of pixels
Ceil(v) == (v + 1) \div 2

\* Bounds<T>::right / left / top / bottom
right(b) == b.pos.x + b.size.w
left(b) == b.pos.x
top(b) == b.pos.y
\* variant: the bottom edge computed from the width
bottom_FromWidth(b) == b.pos.y + b.size.w

bottom(b) == b.pos.y + b.size.h

Graphemes == {"a"}

RECURSIVE SeqsUpTo(_, _)
SeqsUpTo(S, n) ==
    IF n = 0 THEN {<<>>}
    ELSE LET shorter == SeqsUpTo(S, n - 1)
         IN shorter \cup {Append(s, e) : s \in {t \in shorter : Len(t) = n - 1}, e \in S}

\* lines: empty, one grapheme short of the longest, and the longest
Lines == {l \in SeqsUpTo(Graphemes, MaxLineLen) : Len(l) \in {0, MaxLineLen - 1, MaxLineLen}}
Buffers == SeqsUpTo(Lines, MaxLines)

\* the cell the font measures: 1.5 pixels wide, 2 pixels high
CellSizes == {[w |-> 3, h |-> 4]}

\* View::line_len_at
line_len_at(line) == IF line + 1 \in DOMAIN lines THEN Len(lines[line + 1]) ELSE 0

\* View::total_lines
total_lines == Len(lines)

\* ------------------------------------------------------------- commands
MoveCommands == {"MoveCursorLeftWrap", "MoveCursorRightWrap", "MoveCursorUp",
                 "MoveCursorDown", "MoveCursorToStartOfLine", "MoveCursorToEndOfLine",
                 "MoveCursorUpOneViewPage", "MoveCursorDownOneViewPage"}

VerticalCommands == {"MoveCursorUp", "MoveCursorDown",
                     "MoveCursorUpOneViewPage", "MoveCursorDownOneViewPage"}

Move(tag) == [tag |-> tag]
\* variant: the two axes of a pixel scroll exchanged
ScrollViewPx_AxesSwapped(x, y) == [tag |-> "ScrollView", unit |-> "Px", x |-> y, y |-> x]

ScrollViewPx(x, y) == [tag |-> "ScrollView", unit |-> "Px", x |-> x, y |-> y]
ScrollViewCells(x, y) == [tag |-> "ScrollView", unit |-> "Cells", x |-> x, y |-> y]

\* (viewport.size.h as f32 / cell_size.h) as u32
ViewPageRows == Units(viewport.size.h) \div cell_size.h

\* `total_lines() as u32 - 1` in MoveCursorDown underflows on an empty buffer
Underflows(command) == command.tag = "MoveCursorDown" /\ total_lines = 0

\* variant: wrapping left lands one past the last column of the previous row
MoveCursorLeftWrap_PastEnd(pos) ==
    IF pos.x = 0
    THEN IF pos.y # 0
         THEN [x |-> line_len_at(pos.y - 1), y |-> pos.y - 1]
         ELSE pos
    ELSE [pos EXCEPT !.x = pos.x - 1]

\* Command::MoveCursorLeftWrap
MoveCursorLeftWrap(pos) ==
    IF pos.x = 0
    THEN IF pos.y # 0
         THEN [x |-> saturating_sub(line_len_at(pos.y - 1), 1), y |-> pos.y - 1]
         ELSE pos
    ELSE [pos EXCEPT !.x = pos.x - 1]

\* variant: at the end of a line the cursor stays where it is
MoveCursorRightWrap_StopsAtLineEnd(pos) ==
    IF pos.x + 1 >= line_len_at(pos.y)
    THEN pos
    ELSE [pos EXCEPT !.x = pos.x + 1]

\* variant: from the end of the last row the cursor wraps to the buffer's start
MoveCursorRightWrap_WrapsToTop(pos) ==
    IF pos.x + 1 >= line_len_at(pos.y)
    THEN IF pos.y + 1 # total_lines
         THEN [x |-> 0, y |-> pos.y + 1]
         ELSE [x |-> 0, y |-> 0]
    ELSE [pos EXCEPT !.x = pos.x + 1]

\* Command::MoveCursorRightWrap
MoveCursorRightWrap(pos) ==
    IF pos.x + 1 >= line_len_at(pos.y)
    THEN IF pos.y + 1 # total_lines
         THEN [x |-> 0, y |-> pos.y + 1]
         ELSE pos
    ELSE [pos EXCEPT !.x = pos.x + 1]

\* variant: moving up from row 0 wraps around to the last row
MoveCursorUp_WrapsToLastRow(pos) ==
    IF pos.y = 0
    THEN [pos EXCEPT !.y = saturating_sub(total_lines, 1)]
    ELSE [pos EXCEPT !.y = pos.y - 1]

\* Command::MoveCursorUp
MoveCursorUp(pos) == [pos EXCEPT !.y = saturating_sub(pos.y, 1)]

\* variant: the row is clamped to the line count, one past the last row
MoveCursorDown_PastLast(pos) ==
    IF total_lines = 0
    THEN [pos EXCEPT !.y = pos.y + 1]
    ELSE [pos EXCEPT !.y = Min(pos.y + 1, total_lines)]

\* Command::MoveCursorDown when the arithmetic wraps (no overflow checks): on an
\* empty buffer `total_lines() as u32 - 1` is u32::MAX, and the minimum of a u32
\* and u32::MAX is the u32
MoveCursorDown(pos) ==
    IF total_lines = 0
    THEN [pos EXCEPT !.y = pos.y + 1]
    ELSE [pos EXCEPT !.y = Min(pos.y + 1, total_lines - 1)]

\* Command::MoveCursorToStartOfLine
MoveCursorToStartOfLine(pos) == [pos EXCEPT !.x = 0]

\* variant: the end of the line is the column after its last grapheme
MoveCursorToEndOfLine_PastEnd(pos) == [pos EXCEPT !.x = line_len_at(pos.y)]

\* Command::MoveCursorToEndOfLine
MoveCursorToEndOfLine(pos) == [pos EXCEPT !.x = saturating_sub(line_len_at(pos.y), 1)]

\* Command::MoveCursorUpOneViewPage
MoveCursorUpOneViewPage(pos) == [pos EXCEPT !.y = saturating_sub(pos.y, ViewPageRows)]

\* Command::MoveCursorDownOneViewPage
MoveCursorDownOneViewPage(pos) ==
    [pos EXCEPT !.y = Min(pos.y + ViewPageRows, saturating_sub(total_lines, 1))]

\* the match of execute_command acting on the cursor
MoveCursor(command, pos) ==
    CASE command.tag = "MoveCursorLeftWrap" -> MoveCursorLeftWrap(pos)
      [] command.tag = "MoveCursorRightWrap" -> MoveCursorRightWrap(pos)
      [] command.tag = "MoveCursorUp" -> MoveCursorUp(pos)
      [] command.tag = "MoveCursorDown" -> MoveCursorDown(pos)
      [] command.tag = "MoveCursorToStartOfLine" -> MoveCursorToStartOfLine(pos)
      [] command.tag = "MoveCursorToEndOfLine" -> MoveCursorToEndOfLine(pos)
      [] command.tag = "MoveCursorUpOneViewPage" -> MoveCursorUpOneViewPage(pos)
      [] command.tag = "MoveCursorDownOneViewPage" -> MoveCursorDownOneViewPage(pos)
      [] OTHER -> pos

\* the match arms of execute_command acting on the scroll offset
ScrollView(command, offset) ==
    IF command.tag # "ScrollView" THEN offset
    ELSE IF command.unit = "Px"
         THEN [x |-> offset.x + command.x, y |-> offset.y + command.y]
         ELSE [x |-> offset.x + cell_size.w * command.x,
               y |-> offset.y + cell_size.h * command.y]

\* variant: scroll commands leave the remembered column in place
StickyColumn_KeptByScroll(command, previous_cursor_pos, sticky) ==
    IF command.tag \in VerticalCommands
    THEN IF sticky = None THEN Some(previous_cursor_pos.x) ELSE sticky
    ELSE IF command.tag = "ScrollView" THEN sticky ELSE None

\* variant: every vertical command captures the current column
StickyColumn_AlwaysCaptured(command, previous_cursor_pos, sticky) ==
    IF command.tag \in VerticalCommands
    THEN Some(previous_cursor_pos.x)
    ELSE None

\* sticky column reconciliation: the remembered column after the command
StickyColumn(command, previous_cursor_pos, sticky) ==
    IF command.tag \in VerticalCommands
    THEN IF sticky = None THEN Some(previous_cursor_pos.x) ELSE sticky
    ELSE None

\* variant: the column is clamped to the line but never restored
StickyCursor_NeverRestored(command, pos, previous_cursor_pos, sticky) ==
    IF command.tag \in VerticalCommands
    THEN LET current_line_len == line_len_at(pos.y)
         IN IF pos.x >= current_line_len
            THEN [pos EXCEPT !.x = saturating_sub(current_line_len, 1)]
            ELSE pos
    ELSE pos

\* variant: a column past the end of the new line is clamped to the line length
StickyCursor_ClampsPastEnd(command, pos, previous_cursor_pos, sticky) ==
    IF command.tag \in VerticalCommands
    THEN LET current_line_len == line_len_at(pos.y)
             prev_pos == StickyColumn(command, previous_cursor_pos, sticky)[1]
         IN IF pos.x >= current_line_len
            THEN [pos EXCEPT !.x = current_line_len]
            ELSE IF prev_pos < current_line_len
                 THEN [pos EXCEPT !.x = prev_pos]
                 ELSE [pos EXCEPT !.x = saturating_sub(current_line_len, 1)]
    ELSE pos

\* sticky column reconciliation: the cursor after the command
StickyCursor(command, pos, previous_cursor_pos, sticky) ==
    IF command.tag \in VerticalCommands
    THEN LET current_line_len == line_len_at(pos.y)
             prev_pos == StickyColumn(command, previous_cursor_pos, sticky)[1]
         IN IF pos.x >= current_line_len
            THEN [pos EXCEPT !.x = saturating_sub(current_line_len, 1)]
            ELSE IF prev_pos < current_line_len
                 THEN [pos EXCEPT !.x = prev_pos]
                 ELSE [pos EXCEPT !.x = saturating_sub(current_line_len, 1)]
    ELSE pos

\* variant: scroll commands also bring the cursor back into view
should_adjust_scroll_wrt_cursor_Always(command) == TRUE

should_adjust_scroll_wrt_cursor(command) == command.tag \in MoveCommands

\* the cursor cell in content-space units
current_cursor_global_bounds(pos) ==
    [pos |-> [x |-> pos.x * cell_size.w, y |-> pos.y * cell_size.h],
     size |-> [w |-> cell_size.w, h |-> cell_size.h]]

\* the viewport moved by the scroll offset, in units
current_scroll_viewport_offset(vp, offset) ==
    [pos |-> [x |-> Units(vp.pos.x) + offset.x, y |-> Units(vp.pos.y) + offset.y],
     size |-> [w |-> Units(vp.size.w), h |-> Units(vp.size.h)]]

\* variant: the adjusted window origin is added to the old offset
AdjustScroll_Accumulated(pos, vp, offset) ==
    LET cur == current_cursor_global_bounds(pos)
        w0 == current_scroll_viewport_offset(vp, offset)
        w1 == IF right(w0) <= right(cur)
              THEN [w0 EXCEPT !.pos.x = right(cur) - w0.size.w] ELSE w0
        w2 == IF left(cur) <= left(w1)
              THEN [w1 EXCEPT !.pos.x = left(cur)] ELSE w1
        w3 == IF bottom(w2) <= bottom(cur)
              THEN [w2 EXCEPT !.pos.y = bottom(cur) - w2.size.h] ELSE w2
        w4 == IF top(cur) <= top(w3)
              THEN [w3 EXCEPT !.pos.y = top(cur)] ELSE w3
    IN [x |-> offset.x + w4.pos.x - Units(vp.pos.x), y |-> offset.y + w4.pos.y - Units(vp.pos.y)]

\* variant: the bottom clamp aligns the window with the cursor's top edge
AdjustScroll_BottomToTop(pos, vp, offset) ==
    LET cur == current_cursor_global_bounds(pos)
        w0 == current_scroll_viewport_offset(vp, offset)
        w1 == IF right(w0) <= right(cur)
              THEN [w0 EXCEPT !.pos.x = right(cur) - w0.size.w] ELSE w0
        w2 == IF left(cur) <= left(w1)
              THEN [w1 EXCEPT !.pos.x = left(cur)] ELSE w1
        w3 == IF bottom(w2) <= bottom(cur)
              THEN [w2 EXCEPT !.pos.y = top(cur) - w2.size.h] ELSE w2
        w4 == IF top(cur) <= top(w3)
              THEN [w3 EXCEPT !.pos.y = top(cur)] ELSE w3
    IN [x |-> w4.pos.x - Units(vp.pos.x), y |-> w4.pos.y - Units(vp.pos.y)]

\* variant: the window is always put with its top-left corner on the cursor's
AdjustScroll_CornerAligned(pos, vp, offset) ==
    LET cur == current_cursor_global_bounds(pos)
    IN [x |-> left(cur) - Units(vp.pos.x), y |-> top(cur) - Units(vp.pos.y)]

\* scroll adjustment w.r.t. the cursor: the four edge clamps, in the code's order
AdjustScroll(pos, vp, offset) ==
    LET cur == current_cursor_global_bounds(pos)
        w0 == current_scroll_viewport_offset(vp, offset)
        w1 == IF right(w0) <= right(cur)
              THEN [w0 EXCEPT !.pos.x = right(cur) - w0.size.w] ELSE w0
        w2 == IF left(cur) <= left(w1)
              THEN [w1 EXCEPT !.pos.x = left(cur)] ELSE w1
        w3 == IF bottom(w2) <= bottom(cur)
              THEN [w2 EXCEPT !.pos.y = bottom(cur) - w2.size.h] ELSE w2
        w4 == IF top(cur) <= top(w3)
              THEN [w3 EXCEPT !.pos.y = top(cur)] ELSE w3
    IN [x |-> w4.pos.x - Units(vp.pos.x), y |-> w4.pos.y - Units(vp.pos.y)]

\* the window of states the model explores: scroll commands keep the offset
\* within MaxScroll units of the origin, cursor moves keep the row within MaxRow
\* or within one row of the buffer's end
MoveInBounds(pos) == pos.y <= Max(MaxRow, total_lines)
Abs(v) == IF v < 0 THEN -v ELSE v
ScrollInBounds(offset) == Abs(offset.x) + Abs(offset.y) <= MaxScroll

\* history of what was handled so far: no command and no resize (Fresh), n
\* repetitions of one cursor command and no resize, or anything else (Mixed)
Fresh == [tag |-> "none", n |-> 0]
Mixed == [tag |-> "mixed", n |-> 0]
StreakAfter(command) ==
    IF command.tag \in MoveCommands /\ streak.tag \in {"none", command.tag}
    THEN [tag |-> command.tag, n |-> Min(streak.n + 1, MaxStreak)]
    ELSE Mixed

\* variant: a command also stores the scroll offset, in whole pixels, as the
\* viewport origin
ExecuteCommand_MovesViewport(command) ==
    LET previous_cursor_pos == cursor_pos
        moved == MoveCursor(command, cursor_pos)
        scrolled == ScrollView(command, scroll_offset)
        pos == StickyCursor(command, moved, previous_cursor_pos, cursor_previous_line_x_pos)
        offset == IF should_adjust_scroll_wrt_cursor(command)
                  THEN AdjustScroll(pos, viewport, scrolled)
                  ELSE scrolled
    IN /\ IF command.tag = "ScrollView" THEN ScrollInBounds(offset) ELSE MoveInBounds(pos)
       /\ cursor_pos' = pos
       /\ cursor_previous_line_x_pos' =
              StickyColumn(command, previous_cursor_pos, cursor_previous_line_x_pos)
       /\ scroll_offset' = offset
       /\ viewport' = [viewport EXCEPT !.pos = [x |-> Max(0, offset.x \div 2),
                                                y |-> Max(0, offset.y \div 2)]]
       /\ run' = IF command.tag \in VerticalCommands
                 THEN (IF run = None THEN Some(cursor_pos.x) ELSE run)
                 ELSE None
       /\ streak' = StreakAfter(command)
       /\ UNCHANGED <<lines, file_path, startup, cell_size, panicked>>

\* App::execute_command when it runs to completion
ExecuteCommand(command) ==
    LET previous_cursor_pos == cursor_pos
        moved == MoveCursor(command, cursor_pos)
        scrolled == ScrollView(command, scroll_offset)
        pos == StickyCursor(command, moved, previous_cursor_pos, cursor_previous_line_x_pos)
        offset == IF should_adjust_scroll_wrt_cursor(command)
                  THEN AdjustScroll(pos, viewport, scrolled)
                  ELSE scrolled
    IN /\ IF command.tag = "ScrollView" THEN ScrollInBounds(offset) ELSE MoveInBounds(pos)
       /\ cursor_pos' = pos
       /\ cursor_previous_line_x_pos' =
              StickyColumn(command, previous_cursor_pos, cursor_previous_line_x_pos)
       /\ scroll_offset' = offset
       /\ run' = IF command.tag \in VerticalCommands
                 THEN (IF run = None THEN Some(cursor_pos.x) ELSE run)
                 ELSE None
       /\ streak' = StreakAfter(command)
       /\ UNCHANGED <<lines, file_path, startup, cell_size, viewport, panicked>>

\* App::execute_command when the subtraction overflows under overflow checks
ExecuteCommandPanics(command) ==
    /\ Underflows(command)
    /\ panicked' = TRUE
    /\ UNCHANGED <<lines, file_path, startup, cell_size, cursor_pos, cursor_previous_line_x_pos,
                   viewport, scroll_offset, run, streak>>

\* what the history variable keeps of the state an event starts from
Snapshot == [cursor_pos |-> cursor_pos,
             cursor_previous_line_x_pos |-> cursor_previous_line_x_pos]

\* ------------------------------------------------------------- events
PhysicalKeys == {"ArrowDown", "ArrowUp", "ArrowLeft", "ArrowRight",
                 "Home", "End", "PageUp", "PageDown", "Other"}
Texts == {"$", "0", "h", "j", "k", "l", "x"}

\* winit key events: the navigation keys carry no text, any other key may
KeyEvent(s, k, t) == [type |-> "KeyboardEvent", state |-> s, physical_key |-> k, text |-> t]
KeyEvents ==
    {KeyEvent("Pressed", k, None) : k \in PhysicalKeys}
    \cup {KeyEvent("Pressed", "Other", Some(t)) : t \in Texts}
    \cup {KeyEvent("Released", "PageDown", None), KeyEvent("Released", "Other", Some("j"))}

\* wheel deltas: LineDelta in half lines, PixelDelta in units
LineDeltas == {[kind |-> "LineDelta", x |-> d[1], y |-> d[2]] :
                  d \in {<<0, 2>>, <<-2, 0>>, <<1, -1>>}}
PixelDeltas == {[kind |-> "PixelDelta", x |-> d[1], y |-> d[2]] :
                  d \in {<<0, -1>>, <<1, 0>>}}
WheelEvents == {[type |-> "MouseWheelEvent", delta |-> d] : d \in LineDeltas \cup PixelDeltas}

ViewEdges == {1, MaxView}
\* windows at least as wide as high
ResizeEvents == {[type |-> "ResizeEvent", new_size |-> size] :
                    size \in {sz \in [w : ViewEdges, h : ViewEdges] : sz.h <= sz.w}}

\* variant: the wheel delta truncated toward zero without the negation
NegAsI64_NotNegated(v) == IF v >= 0 THEN v \div 2 ELSE -((-v) \div 2)

\* `-right as i64`: negate, then truncate toward zero
NegAsI64(v) == IF v <= 0 THEN (-v) \div 2 ELSE -(v \div 2)

\* variant: a key release executes the command of its key as a press does
KeyCommands_IgnoresState(event) ==
    IF FALSE THEN <<>>
    ELSE CASE event.physical_key = "ArrowDown" -> <<ScrollViewPx(0, Units(1))>>
           [] event.physical_key = "ArrowUp" -> <<ScrollViewPx(0, -Units(1))>>
           [] event.physical_key = "ArrowLeft" -> <<ScrollViewPx(-Units(1), 0)>>
           [] event.physical_key = "ArrowRight" -> <<ScrollViewPx(Units(1), 0)>>
           [] event.physical_key = "Home" -> <<Move("MoveCursorToStartOfLine")>>
           [] event.physical_key = "End" -> <<Move("MoveCursorToEndOfLine")>>
           [] event.physical_key = "PageUp" -> <<Move("MoveCursorUpOneViewPage")>>
           [] event.physical_key = "PageDown" -> <<Move("MoveCursorDownOneViewPage")>>
           [] OTHER ->
                IF event.text = None THEN <<>>
                ELSE CASE event.text[1] = "$" -> <<Move("MoveCursorToEndOfLine")>>
                       [] event.text[1] = "0" -> <<Move("MoveCursorToStartOfLine")>>
                       [] event.text[1] = "h" -> <<Move("MoveCursorLeftWrap")>>
                       [] event.text[1] = "j" -> <<Move("MoveCursorDown")>>
                       [] event.text[1] = "k" -> <<Move("MoveCursorUp")>>
                       [] event.text[1] = "l" -> <<Move("MoveCursorRightWrap")>>
                       [] OTHER -> <<>>

\* variant: "j" and "k" exchanged
KeyCommands_DownUpSwapped(event) ==
    IF event.state # "Pressed" THEN <<>>
    ELSE CASE event.physical_key = "ArrowDown" -> <<ScrollViewPx(0, Units(1))>>
           [] event.physical_key = "ArrowUp" -> <<ScrollViewPx(0, -Units(1))>>
           [] event.physical_key = "ArrowLeft" -> <<ScrollViewPx(-Units(1), 0)>>
           [] event.physical_key = "ArrowRight" -> <<ScrollViewPx(Units(1), 0)>>
           [] event.physical_key = "Home" -> <<Move("MoveCursorToStartOfLine")>>
           [] event.physical_key = "End" -> <<Move("MoveCursorToEndOfLine")>>
           [] event.physical_key = "PageUp" -> <<Move("MoveCursorUpOneViewPage")>>
           [] event.physical_key = "PageDown" -> <<Move("MoveCursorDownOneViewPage")>>
           [] OTHER ->
                IF event.text = None THEN <<>>
                ELSE CASE event.text[1] = "$" -> <<Move("MoveCursorToEndOfLine")>>
                       [] event.text[1] = "0" -> <<Move("MoveCursorToStartOfLine")>>
                       [] event.text[1] = "h" -> <<Move("MoveCursorLeftWrap")>>
                       [] event.text[1] = "j" -> <<Move("MoveCursorUp")>>
                       [] event.text[1] = "k" -> <<Move("MoveCursorDown")>>
                       [] event.text[1] = "l" -> <<Move("MoveCursorRightWrap")>>
                       [] OTHER -> <<>>

\* the command list handle_events builds for a keyboard event
KeyCommands(event) ==
    IF event.state # "Pressed" THEN <<>>
    ELSE CASE event.physical_key = "ArrowDown" -> <<ScrollViewPx(0, Units(1))>>
           [] event.physical_key = "ArrowUp" -> <<ScrollViewPx(0, -Units(1))>>
           [] event.physical_key = "ArrowLeft" -> <<ScrollViewPx(-Units(1), 0)>>
           [] event.physical_key = "ArrowRight" -> <<ScrollViewPx(Units(1), 0)>>
           [] event.physical_key = "Home" -> <<Move("MoveCursorToStartOfLine")>>
           [] event.physical_key = "End" -> <<Move("MoveCursorToEndOfLine")>>
           [] event.physical_key = "PageUp" -> <<Move("MoveCursorUpOneViewPage")>>
           [] event.physical_key = "PageDown" -> <<Move("MoveCursorDownOneViewPage")>>
           [] OTHER ->
                IF event.text = None THEN <<>>
                ELSE CASE event.text[1] = "$" -> <<Move("MoveCursorToEndOfLine")>>
                       [] event.text[1] = "0" -> <<Move("MoveCursorToStartOfLine")>>
                       [] event.text[1] = "h" -> <<Move("MoveCursorLeftWrap")>>
                       [] event.text[1] = "j" -> <<Move("MoveCursorDown")>>
                       [] event.text[1] = "k" -> <<Move("MoveCursorUp")>>
                       [] event.text[1] = "l" -> <<Move("MoveCursorRightWrap")>>
                       [] OTHER -> <<>>

\* the command handle_events builds for a mouse-wheel event
WheelCommand(event) ==
    IF event.delta.kind = "LineDelta"
    THEN ScrollViewCells(NegAsI64(event.delta.x), NegAsI64(event.delta.y))
    ELSE ScrollViewPx(event.delta.x, event.delta.y)

\* handle_events, AppEvent::KeyboardEvent; an event whose command panics
\* never reaches the assignment of `text`
KeyboardEvent(event) ==
    /\ ~panicked
    /\ LET commands == KeyCommands(event)
       IN IF commands = <<>>
          THEN /\ text' = event
               /\ prev' = Snapshot
               /\ UNCHANGED <<lines, file_path, startup, cell_size, cursor_pos, cursor_previous_line_x_pos,
                              viewport, scroll_offset, panicked, run, streak>>
          ELSE \/ /\ ExecuteCommand(commands[1])
                  /\ text' = event
                  /\ prev' = Snapshot
               \/ /\ ExecuteCommandPanics(commands[1])
                  /\ UNCHANGED <<text, prev>>

\* handle_events, AppEvent::MouseWheelEvent
MouseWheelEvent(event) ==
    /\ ~panicked
    /\ prev' = Snapshot
    /\ text' = event
    /\ ExecuteCommand(WheelCommand(event))

\* variant: a resize also scrolls the clamped cursor into the new window
ResizeEvent_Reconciles(event) ==
    LET max_x == event.new_size.w \div Ceil(cell_size.w)
        max_y == event.new_size.h \div Ceil(cell_size.h)
    IN /\ ~panicked
       /\ prev' = Snapshot
       /\ cursor_pos' = [x |-> Min(cursor_pos.x, max_x), y |-> Min(cursor_pos.y, max_y)]
       /\ viewport' = [pos |-> [x |-> 0, y |-> 0],
                       size |-> [w |-> event.new_size.w, h |-> event.new_size.h]]
       /\ scroll_offset' = AdjustScroll(cursor_pos', viewport', scroll_offset)
       /\ text' = event
       /\ streak' = Mixed
       /\ UNCHANGED <<lines, file_path, startup, cell_size, cursor_previous_line_x_pos, panicked, run>>

\* variant: a resize also drops the lines below the last row the window holds
ResizeEvent_TrimsBuffer(event) ==
    LET max_x == event.new_size.w \div Ceil(cell_size.w)
        max_y == event.new_size.h \div Ceil(cell_size.h)
    IN /\ ~panicked
       /\ prev' = Snapshot
       /\ cursor_pos' = [x |-> Min(cursor_pos.x, max_x), y |-> Min(cursor_pos.y, max_y)]
       /\ viewport' = [pos |-> [x |-> 0, y |-> 0],
                       size |-> [w |-> event.new_size.w, h |-> event.new_size.h]]
       /\ text' = event
       /\ streak' = Mixed
       /\ lines' = SubSeq(lines, 1, Min(Len(lines), max_y + 1))
       /\ UNCHANGED <<file_path, startup, cell_size, cursor_previous_line_x_pos, scroll_offset,
                      panicked, run>>

\* handle_events, AppEvent::ResizeEvent (screen_size is the new size)
ResizeEvent(event) ==
    LET max_x == event.new_size.w \div Ceil(cell_size.w)
        max_y == event.new_size.h \div Ceil(cell_size.h)
    IN /\ ~panicked
       /\ prev' = Snapshot
       /\ cursor_pos' = [x |-> Min(cursor_pos.x, max_x), y |-> Min(cursor_pos.y, max_y)]
       /\ viewport' = [pos |-> [x |-> 0, y |-> 0],
                       size |-> [w |-> event.new_size.w, h |-> event.new_size.h]]
       /\ text' = event
       /\ streak' = Mixed
       /\ UNCHANGED <<lines, file_path, startup, cell_size, cursor_previous_line_x_pos, scroll_offset,
                      panicked, run>>

\* ------------------------------------------------------------- construction
\* the paths a command line names, and what the disk holds at such a path: a
\* file of text, a file that cannot be read as text, a directory, or nothing
Paths == {"f", "g"}
FileChars == {"a", "\n", "\r"}
Disks ==
    {[kind |-> k] : k \in {"missing", "unreadable", "directory"}}
    \cup {[kind |-> "file", content |-> c] : c \in SeqsUpTo(FileChars, MaxFileLen)}

\* fs::read_to_string: Some(content), or None for an error
read_to_string(disk) == IF disk.kind = "file" THEN Some(disk.content) ELSE None

\* str::lines: the pieces ending at each "\n", without that "\n" and without a
\* "\r" right before it; a last piece with no "\n" is kept as it is
RECURSIVE str_lines(_)
str_lines(content) ==
    IF content = <<>> THEN <<>>
    ELSE LET ends == {i \in 1 .. Len(content) : content[i] = "\n"}
             end == IF ends = {} THEN 0 ELSE CHOOSE i \in ends : \A j \in ends : i <= j
             piece == IF end = 0 THEN content ELSE SubSeq(content, 1, end - 1)
             line == IF end # 0 /\ piece # <<>> /\ piece[Len(piece)] = "\r"
                     THEN SubSeq(piece, 1, Len(piece) - 1)
                     ELSE piece
             rest == IF end = 0 THEN <<>> ELSE SubSeq(content, end + 1, Len(content))
         IN <<line>> \o str_lines(rest)

\* Buffer::new
Buffer_new == [lines |-> <<>>, file_path |-> None]

\* variant: a failed read forgets the path
Buffer_load_DropsPath(path, disk) ==
    LET read == read_to_string(disk)
    IN IF read # None
       THEN [lines |-> str_lines(read[1]), file_path |-> Some(path)]
       ELSE [lines |-> <<>>, file_path |-> None]

\* Buffer::load
Buffer_load(path, disk) ==
    LET read == read_to_string(disk)
    IN IF read # None
       THEN [lines |-> str_lines(read[1]), file_path |-> Some(path)]
       ELSE [lines |-> <<>>, file_path |-> Some(path)]

\* the path recorded with a buffer the event specifications start from: an empty
\* buffer as Buffer::new makes it, any other as Buffer::load makes it
BufferPaths(buffer) == IF buffer = <<>> THEN {None} ELSE {Some("f")}

\* the stage of specifications that begin with the application constructed
Constructed == [stage |-> "constructed"]

\* the inputs of App::run before the application is constructed
StartupInputs ==
    [stage : {"args"}, filepath_arg : {None} \cup {Some(p) : p \in Paths}, disk : Disks]

\* App::run: the buffer is loaded when the argument names no directory
Run ==
    /\ startup.stage = "args"
    /\ LET buffer ==
               IF startup.filepath_arg = None THEN Buffer_new
               ELSE IF startup.disk.kind # "directory"
                    THEN Buffer_load(startup.filepath_arg[1], startup.disk)
                    ELSE Buffer_new
       IN /\ lines' = buffer.lines
          /\ file_path' = buffer.file_path
    /\ startup' = [startup EXCEPT !.stage = "loaded"]
    /\ UNCHANGED <<cell_size, cursor_pos, cursor_previous_line_x_pos, viewport,
                   scroll_offset, text, panicked, prev, run, streak>>

\* ------------------------------------------------------------- window layer
\* the ids the platform gives to windows
WindowIds == {"w1", "w2"}

\* AppState
Suspended(cached_window) == [tag |-> "Suspended", cached_window |-> cached_window]
Active(window) == [tag |-> "Active", window |-> window]

\* AppContext::new: suspended, with no window yet
AppContext_new == Suspended(None)

\* create_winit_window: the window the platform creates for the application;
\* any other id is of a window that is not its own
create_winit_window == "w1"

\* variant: a resumption creates a window whether or not one is cached
resumed_IgnoresCache ==
    /\ ~panicked
    /\ ~exiting
    /\ state.tag = "Suspended"
    /\ state' = Active(create_winit_window)
    /\ windows_created' = windows_created + 1
    /\ surface_created' = TRUE
    /\ UNCHANGED <<handler_vars, redraw_requested, exiting, delivered>>

\* ApplicationHandler::resumed: nothing unless suspended; takes the cached
\* window, or creates one when none is cached, and creates a surface for it
resumed ==
    /\ ~panicked
    /\ ~exiting
    /\ state.tag = "Suspended"
    /\ IF state.cached_window = None
       THEN /\ state' = Active(create_winit_window)
            /\ windows_created' = windows_created + 1
       ELSE /\ state' = Active(state.cached_window[1])
            /\ UNCHANGED windows_created
    /\ surface_created' = TRUE
    /\ UNCHANGED <<handler_vars, redraw_requested, exiting, delivered>>

\* ApplicationHandler::suspended: nothing unless active; caches the window (the
\* surface is dropped with the active state)
suspended ==
    /\ ~panicked
    /\ ~exiting
    /\ state.tag = "Active"
    /\ state' = Suspended(Some(state.window))
    /\ surface_created' = FALSE
    /\ UNCHANGED <<handler_vars, redraw_requested, exiting, delivered, windows_created>>

\* variant: the window id of the event is not compared with the id of the window
window_event_AnyWindow(window_id, event) ==
    /\ ~panicked
    /\ ~exiting
    /\ delivered' = Some([window_id |-> window_id, type |-> event.type])
    /\ surface_created' = FALSE
    /\ UNCHANGED windows_created
    /\ IF state.tag = "Active"
       THEN CASE event.type = "CloseRequested" ->
                    /\ exiting' = TRUE
                    /\ UNCHANGED <<handler_vars, state, redraw_requested>>
              [] event.type = "Resized" ->
                    /\ ResizeEvent([type |-> "ResizeEvent", new_size |-> event.size])
                    /\ UNCHANGED <<state, redraw_requested, exiting>>
              [] event.type = "RedrawRequested" ->
                    /\ redraw_requested' = FALSE
                    /\ UNCHANGED <<handler_vars, state, exiting>>
              [] event.type = "KeyboardInput" ->
                    /\ KeyboardEvent(event.event)
                    /\ redraw_requested' = (redraw_requested \/ ~panicked')
                    /\ UNCHANGED <<state, exiting>>
              [] event.type = "MouseWheel" ->
                    /\ MouseWheelEvent([type |-> "MouseWheelEvent", delta |-> event.delta])
                    /\ redraw_requested' = (redraw_requested \/ ~panicked')
                    /\ UNCHANGED <<state, exiting>>
              [] OTHER ->
                    UNCHANGED <<handler_vars, state, redraw_requested, exiting>>
       ELSE UNCHANGED <<handler_vars, state, redraw_requested, exiting>>

\* ApplicationHandler::window_event: an event is handled only while active and
\* for the window of the application; a key or wheel event goes to the handler
\* and then requests a redraw (not reached when the handler panics), a resize
\* goes to the handler, a redraw request draws the frame, a close request exits
\* the event loop, any other event is ignored
window_event(window_id, event) ==
    /\ ~panicked
    /\ ~exiting
    /\ delivered' = Some([window_id |-> window_id, type |-> event.type])
    /\ surface_created' = FALSE
    /\ UNCHANGED windows_created
    /\ IF state.tag = "Active" /\ state.window = window_id
       THEN CASE event.type = "CloseRequested" ->
                    /\ exiting' = TRUE
                    /\ UNCHANGED <<handler_vars, state, redraw_requested>>
              [] event.type = "Resized" ->
                    /\ ResizeEvent([type |-> "ResizeEvent", new_size |-> event.size])
                    /\ UNCHANGED <<state, redraw_requested, exiting>>
              [] event.type = "RedrawRequested" ->
                    /\ redraw_requested' = FALSE
                    /\ UNCHANGED <<handler_vars, state, exiting>>
              [] event.type = "KeyboardInput" ->
                    /\ KeyboardEvent(event.event)
                    /\ redraw_requested' = (redraw_requested \/ ~panicked')
                    /\ UNCHANGED <<state, exiting>>
              [] event.type = "MouseWheel" ->
                    /\ MouseWheelEvent([type |-> "MouseWheelEvent", delta |-> event.delta])
                    /\ redraw_requested' = (redraw_requested \/ ~panicked')
                    /\ UNCHANGED <<state, exiting>>
              [] OTHER ->
                    UNCHANGED <<handler_vars, state, redraw_requested, exiting>>
       ELSE UNCHANGED <<handler_vars, state, redraw_requested, exiting>>

\* the window layer as the specifications of the handler alone hold it: active
\* on its window, nothing requested, nothing delivered
WindowAtRest ==
    /\ state = Active("w1")
    /\ redraw_requested = FALSE
    /\ exiting = FALSE
    /\ delivered = None
    /\ windows_created = 1
    /\ surface_created = FALSE

\* App::run: the state the application is constructed with
Init ==
    /\ lines \in Buffers
    /\ file_path \in BufferPaths(lines)
    /\ cell_size \in CellSizes
    /\ cursor_pos = [x |-> 0, y |-> 0]
    /\ cursor_previous_line_x_pos = None
    /\ viewport = [pos |-> [x |-> 0, y |-> 0], size |-> [w |-> 1, h |-> 1]]
    /\ scroll_offset = [x |-> 0, y |-> 0]
    /\ text = [type |-> "No events yet!"]
    /\ panicked = FALSE
    /\ prev = Snapshot
    /\ run = None
    /\ streak = Fresh
    /\ startup = Constructed
    /\ WindowAtRest

Next ==
    \/ \E event \in KeyEvents : KeyboardEvent(event) /\ UNCHANGED window_vars
    \/ \E event \in WheelEvents : MouseWheelEvent(event) /\ UNCHANGED window_vars
    \/ \E event \in ResizeEvents : ResizeEvent(event) /\ UNCHANGED window_vars

Spec == Init /\ [][Next]_vars

\* cursor navigation alone (key presses that move the cursor, and resizes), over
\* the small buffers and the buffer of the sticky-column scenario
LineOf(n) == [i \in 1 .. n |-> "a"]
StickyBuffer == <<LineOf(20), LineOf(5), LineOf(20)>>

MoveKeyEvents ==
    {event \in KeyEvents : KeyCommands(event) # <<>> /\ KeyCommands(event)[1].tag \in MoveCommands}

InitNavigate ==
    /\ lines \in Buffers \cup {StickyBuffer}
    /\ file_path \in BufferPaths(lines)
    /\ cell_size \in CellSizes
    /\ cursor_pos = [x |-> 0, y |-> 0]
    /\ cursor_previous_line_x_pos = None
    /\ viewport = [pos |-> [x |-> 0, y |-> 0], size |-> [w |-> 1, h |-> 1]]
    /\ scroll_offset = [x |-> 0, y |-> 0]
    /\ text = [type |-> "No events yet!"]
    /\ panicked = FALSE
    /\ prev = Snapshot
    /\ run = None
    /\ streak = Fresh
    /\ startup = Constructed
    /\ WindowAtRest

NextNavigate ==
    \/ \E event \in MoveKeyEvents : KeyboardEvent(event) /\ UNCHANGED window_vars
    \/ \E event \in ResizeEvents : ResizeEvent(event) /\ UNCHANGED window_vars

SpecNavigate == InitNavigate /\ [][NextNavigate]_vars

\* the construction alone: App::run over every argument and disk content
InitLoad ==
    /\ lines = <<>>
    /\ file_path = None
    /\ cell_size \in CellSizes
    /\ cursor_pos = [x |-> 0, y |-> 0]
    /\ cursor_previous_line_x_pos = None
    /\ viewport = [pos |-> [x |-> 0, y |-> 0], size |-> [w |-> 1, h |-> 1]]
    /\ scroll_offset = [x |-> 0, y |-> 0]
    /\ text = [type |-> "No events yet!"]
    /\ panicked = FALSE
    /\ prev = Snapshot
    /\ run = None
    /\ streak = Fresh
    /\ startup \in StartupInputs
    /\ WindowAtRest

NextLoad == Run /\ UNCHANGED window_vars

SpecLoad == InitLoad /\ [][NextLoad]_vars

\* commands alone: key presses that execute a command (cursor keys and the
\* arrow keys, which scroll by a pixel), and resizes
CommandKeyEvents == {event \in KeyEvents : KeyCommands(event) # <<>>}

NextCommands ==
    \/ \E event \in CommandKeyEvents : KeyboardEvent(event) /\ UNCHANGED window_vars
    \/ \E event \in ResizeEvents : ResizeEvent(event) /\ UNCHANGED window_vars

SpecCommands == Init /\ [][NextCommands]_vars

\* scrolling alone: arrow-key presses and wheel events, with the presses that
\* move the cursor right, down and to the end of its line, key releases, and
\* resizes
ScrollKeyEvents ==
    {event \in KeyEvents :
        \/ event.state = "Released"
        \/ event.physical_key \in {"ArrowDown", "ArrowUp", "ArrowLeft", "ArrowRight", "End"}
        \/ event.text \in {Some("l"), Some("j")}}

NextScroll ==
    \/ \E event \in ScrollKeyEvents : KeyboardEvent(event) /\ UNCHANGED window_vars
    \/ \E event \in WheelEvents : MouseWheelEvent(event) /\ UNCHANGED window_vars
    \/ \E event \in ResizeEvents : ResizeEvent(event) /\ UNCHANGED window_vars

SpecScroll == Init /\ [][NextScroll]_vars

\* typing alone: presses of every key but the arrow keys (cursor keys and keys
\* that execute nothing), key releases, and resizes
TypingKeyEvents ==
    {event \in KeyEvents :
        event.physical_key \notin {"ArrowDown", "ArrowUp", "ArrowLeft", "ArrowRight"}}

NextTyping ==
    \/ \E event \in TypingKeyEvents : KeyboardEvent(event) /\ UNCHANGED window_vars
    \/ \E event \in ResizeEvents : ResizeEvent(event) /\ UNCHANGED window_vars

SpecTyping == Init /\ [][NextTyping]_vars

\* the vertical-move scenario: ten lines of 80 graphemes, cells of 8 x 16 pixels,
\* a window of 400 x 160 pixels reported by the first resize, and key events that
\* move the cursor vertically or to an end of its line, or execute nothing
ScenarioBuffer == [i \in 1 .. 10 |-> LineOf(80)]
ScenarioResize == [type |-> "ResizeEvent", new_size |-> [w |-> 400, h |-> 160]]

ScenarioKeyEvents ==
    {event \in KeyEvents :
        \/ KeyCommands(event) = <<>>
        \/ KeyCommands(event)[1].tag \in
               VerticalCommands \cup {"MoveCursorToStartOfLine", "MoveCursorToEndOfLine"}}

InitScenario ==
    /\ lines = ScenarioBuffer
    /\ file_path \in BufferPaths(lines)
    /\ cell_size = [w |-> Units(8), h |-> Units(16)]
    /\ cursor_pos = [x |-> 0, y |-> 0]
    /\ cursor_previous_line_x_pos = None
    /\ viewport = [pos |-> [x |-> 0, y |-> 0], size |-> ScenarioResize.new_size]
    /\ scroll_offset = [x |-> 0, y |-> 0]
    /\ text = ScenarioResize
    /\ panicked = FALSE
    /\ prev = Snapshot
    /\ run = None
    /\ streak = Fresh
    /\ startup = Constructed
    /\ WindowAtRest

NextScenario ==
    \E event \in ScenarioKeyEvents : KeyboardEvent(event) /\ UNCHANGED window_vars

SpecScenario == InitScenario /\ [][NextScenario]_vars

\* the window layer over the handler: the application starts suspended, the
\* platform resumes and suspends it and delivers window events for any window
\* id: close and redraw requests, a focus change (an event the application
\* ignores), resizes to a square window, a key press that moves the cursor, a key
\* release, and wheel events that scroll by a pixel
WindowKeyEvents ==
    {KeyEvent("Pressed", "Other", Some("l")), KeyEvent("Released", "Other", Some("j"))}
WindowWheelEvents == {event \in WheelEvents : event.delta.kind = "PixelDelta" /\ event.delta.x = 0}
WindowResizeEvents == {event \in ResizeEvents : event.new_size.w = event.new_size.h}

WindowEvents ==
    {[type |-> "CloseRequested"], [type |-> "RedrawRequested"], [type |-> "Focused"]}
    \cup {[type |-> "Resized", size |-> event.new_size] : event \in WindowResizeEvents}
    \cup {[type |-> "KeyboardInput", event |-> event] : event \in WindowKeyEvents}
    \cup {[type |-> "MouseWheel", delta |-> event.delta] : event \in WindowWheelEvents}

InitWindow ==
    /\ lines \in Buffers
    /\ file_path \in BufferPaths(lines)
    /\ cell_size \in CellSizes
    /\ cursor_pos = [x |-> 0, y |-> 0]
    /\ cursor_previous_line_x_pos = None
    /\ viewport = [pos |-> [x |-> 0, y |-> 0], size |-> [w |-> 1, h |-> 1]]
    /\ scroll_offset = [x |-> 0, y |-> 0]
    /\ text = [type |-> "No events yet!"]
    /\ panicked = FALSE
    /\ prev = Snapshot
    /\ run = None
    /\ streak = Fresh
    /\ startup = Constructed
    /\ state = AppContext_new
    /\ redraw_requested = FALSE
    /\ exiting = FALSE
    /\ delivered = None
    /\ windows_created = 0
    /\ surface_created = FALSE

NextWindow ==
    \/ resumed
    \/ suspended
    \/ \E window_id \in WindowIds, event \in WindowEvents : window_event(window_id, event)

SpecWindow == InitWindow /\ [][NextWindow]_vars

\* key and wheel events under the window layer: the application is resumed, and
\* the platform delivers, for any window id, redraw requests, presses of the keys
\* that move the cursor down and right, and every wheel event
RedrawKeyEvents ==
    {KeyEvent("Pressed", "Other", Some("j")), KeyEvent("Pressed", "Other", Some("l"))}

RedrawWindowEvents ==
    {[type |-> "RedrawRequested"]}
    \cup {[type |-> "KeyboardInput", event |-> event] : event \in RedrawKeyEvents}
    \cup {[type |-> "MouseWheel", delta |-> event.delta] : event \in WheelEvents}

NextRedraw ==
    \/ resumed
    \/ \E window_id \in WindowIds, event \in RedrawWindowEvents : window_event(window_id, event)

SpecRedraw == InitWindow /\ [][NextRedraw]_vars

\* the commands handle_events executes for an event (none for a resize)
EventCommands(event) ==
    IF event.type = "KeyboardEvent" THEN KeyCommands(event)
    ELSE IF event.type = "MouseWheelEvent" THEN <<WheelCommand(event)>>
    ELSE <<>>

\* the last handled event executed a pixel scroll command
LastScrollIsPx ==
    /\ EventCommands(text) # <<>>
    /\ EventCommands(text)[1].tag = "ScrollView"
    /\ EventCommands(text)[1].unit = "Px"

\* ------------------------------------------------------------- properties
\* the tag of the command the last handled event executed, "none" if it executed none
LastCommand ==
    IF text.type = "KeyboardEvent"
    THEN (IF KeyCommands(text) = <<>> THEN "none" ELSE KeyCommands(text)[1].tag)
    ELSE IF text.type = "MouseWheelEvent" THEN "ScrollView" ELSE "none"

\* the last valid column of a row
LastColumn(row) == Max(0, line_len_at(row) - 1)

\* C1: in every reachable state the cursor satisfies row < max(1, line_count)
\* and column <= max(0, line_length(row) - 1).
C1_CursorInBounds ==
    /\ cursor_pos.y < Max(1, total_lines)
    /\ cursor_pos.x <= Max(0, line_len_at(cursor_pos.y) - 1)

\* C2: with an empty buffer every cursor command, in any sequence, leaves the
\* cursor at row 0, column 0.
C2_EmptyBufferStaysAtOrigin ==
    total_lines = 0 => cursor_pos = [x |-> 0, y |-> 0]

\* C3: no command drives an unsigned 32-bit quantity below 0: no command
\* ends in a panic, and none runs with the wrapped-around line_count - 1.
C3_NoCommandOverflows ==
    /\ ~panicked
    /\ ~(LastCommand = "MoveCursorDown" /\ total_lines = 0)

\* C4: in a run of consecutive vertical commands, whenever the cursor lands on a
\* line longer than the column it had before the first command of the run, its
\* column is that original column; with lines of 20, 5 and 20 graphemes and a run
\* started at column 15, MoveCursorDown and MoveCursorUp land on column 15 on the
\* long lines and on column 4 on the short one.
C4_StickyRoundTrip ==
    /\ (LastCommand \in VerticalCommands /\ run # None
            /\ line_len_at(cursor_pos.y) > run[1]
        => cursor_pos.x = run[1])
    /\ (lines = StickyBuffer /\ LastCommand \in {"MoveCursorUp", "MoveCursorDown"}
            /\ run = Some(15)
        => cursor_pos.x = IF cursor_pos.y = 1 THEN 4 ELSE 15)

C4_Witness ==
    /\ lines = StickyBuffer
    /\ run = Some(15)
    /\ LastCommand = "MoveCursorUp"
    /\ prev.cursor_pos = [x |-> 4, y |-> 1]
    /\ cursor_pos = [x |-> 15, y |-> 0]

\* C5: after a non-vertical command (MoveCursorLeftWrap, MoveCursorRightWrap,
\* MoveCursorToStartOfLine, MoveCursorToEndOfLine or any ScrollView) the sticky
\* column is unset, and a vertical command that finds it unset captures the
\* column the cursor had when that command started.
C5_NonVerticalClearsSticky ==
    /\ (LastCommand \in (MoveCommands \ VerticalCommands) \cup {"ScrollView"}
            => cursor_previous_line_x_pos = None)
    /\ (LastCommand \in VerticalCommands /\ prev.cursor_previous_line_x_pos = None
            => cursor_previous_line_x_pos = Some(prev.cursor_pos.x))

C5_Witness ==
    /\ LastCommand \in (MoveCommands \ VerticalCommands) \cup {"ScrollView"}
    /\ prev.cursor_previous_line_x_pos # None
    /\ cursor_previous_line_x_pos = None

\* C6: a vertical command sets the sticky column only when it is unset, to the
\* column the cursor had before the command; when it is already set the command
\* leaves it unchanged, also when the column was clamped in between.
C6_StickySetOnceInRun ==
    LastCommand \in VerticalCommands =>
        cursor_previous_line_x_pos =
            IF prev.cursor_previous_line_x_pos = None
            THEN Some(prev.cursor_pos.x)
            ELSE prev.cursor_previous_line_x_pos

C6_Witness ==
    /\ LastCommand \in VerticalCommands
    /\ prev.cursor_previous_line_x_pos # None
    /\ prev.cursor_pos.x < prev.cursor_previous_line_x_pos[1]
    /\ cursor_previous_line_x_pos = prev.cursor_previous_line_x_pos

\* C7: MoveCursorLeftWrap at column 0 moves to the last valid column of the
\* previous row when row > 0 and leaves the cursor at row 0, column 0 when row = 0.
C7_LeftWrapAtColumnZero ==
    LastCommand = "MoveCursorLeftWrap" /\ prev.cursor_pos.x = 0 =>
        cursor_pos = IF prev.cursor_pos.y > 0
                     THEN [x |-> LastColumn(prev.cursor_pos.y - 1), y |-> prev.cursor_pos.y - 1]
                     ELSE [x |-> 0, y |-> 0]

C7_Witness ==
    /\ LastCommand = "MoveCursorLeftWrap"
    /\ prev.cursor_pos.x = 0
    /\ prev.cursor_pos.y > 0
    /\ cursor_pos.x > 0

CursorInsideWindow ==
    LET cur == current_cursor_global_bounds(cursor_pos)
        win == current_scroll_viewport_offset(viewport, scroll_offset)
    IN /\ left(win) <= left(cur)
       /\ right(cur) <= right(win)
       /\ top(win) <= top(cur)
       /\ bottom(cur) <= bottom(win)

ViewportHoldsACell ==
    /\ Units(viewport.size.w) >= cell_size.w
    /\ Units(viewport.size.h) >= cell_size.h

\* C9: for the cursor, viewport and scroll offset of every reachable state,
\* applying the scroll adjustment to its own result gives that result again.
C9_ScrollIntoViewIdempotent ==
    LET once == AdjustScroll(cursor_pos, viewport, scroll_offset)
    IN AdjustScroll(cursor_pos, viewport, once) = once

C9_Witness ==
    /\ Units(viewport.size.w) < cell_size.w
    /\ Units(viewport.size.h) < cell_size.h
    /\ LastCommand = "ScrollView"
    /\ AdjustScroll(cursor_pos, viewport, scroll_offset) # scroll_offset

\* C10: after every cursor-moving command, if the viewport is at least one cell
\* wide and high, the cursor's pixel box lies inside the window.
C10_CursorVisibleAfterMove ==
    LastCommand \in MoveCommands /\ ViewportHoldsACell => CursorInsideWindow

C10_Witness ==
    /\ LastCommand \in MoveCommands
    /\ ViewportHoldsACell
    /\ cursor_pos = prev.cursor_pos
    /\ scroll_offset.y > 0
    /\ CursorInsideWindow

\* C11: in the scenario of ten lines of 80 graphemes, cells of 8 x 16 pixels and
\* a 400 x 160 pixel window at the origin, after n successive MoveCursorDown
\* commands from row 0 the cursor is on row min(n, 9), so fifteen of them leave it
\* on row 9; and with the cursor on row 9 the bottom of the visible window, scroll
\* offset y plus 160 pixels, is the bottom edge of row 9, 160 pixels.
C11_FifteenDownsReachLastRow ==
    streak.tag = "MoveCursorDown" =>
        /\ cursor_pos.y = Min(streak.n, 9)
        /\ cursor_pos.y = 9 =>
               /\ scroll_offset.y + Units(160) = bottom(current_cursor_global_bounds(cursor_pos))
               /\ scroll_offset.y + Units(160) = Units(160)

C11_Witness ==
    /\ streak = [tag |-> "MoveCursorDown", n |-> 15]
    /\ cursor_pos = [x |-> 0, y |-> 9]
    /\ scroll_offset = [x |-> 0, y |-> 0]

\* C12: a step that handles an event executing ScrollView(Px(dx, dy)) makes the
\* scroll offset exactly the old offset plus (dx, dy) and leaves the cursor row
\* and column as they were; no scroll-into-view adjustment runs, so the cursor
\* may end outside the visible window.
C12_PixelScrollAddsDelta ==
    [][LET commands == EventCommands(text')
       IN (/\ ~panicked'
           /\ commands # <<>>
           /\ commands[1].tag = "ScrollView"
           /\ commands[1].unit = "Px")
          => /\ scroll_offset' = [x |-> scroll_offset.x + commands[1].x,
                                  y |-> scroll_offset.y + commands[1].y]
             /\ cursor_pos' = cursor_pos]_vars

C12_Witness ==
    /\ LastScrollIsPx
    /\ ViewportHoldsACell
    /\ ~CursorInsideWindow

\* C13: a step that handles a resize event makes the viewport the reported size
\* at origin (0, 0) and leaves the scroll offset and the sticky column as they
\* were; no scroll-into-view adjustment runs on a resize.
C13_ResizeKeepsScrollAndSticky ==
    [][(text'.type = "ResizeEvent" /\ ~panicked')
       => /\ viewport' = [pos |-> [x |-> 0, y |-> 0], size |-> text'.new_size]
          /\ scroll_offset' = scroll_offset
          /\ cursor_previous_line_x_pos' = cursor_previous_line_x_pos]_vars

C13_Witness ==
    /\ text.type = "ResizeEvent"
    /\ viewport.size = text.new_size
    /\ cursor_pos # prev.cursor_pos
    /\ cursor_previous_line_x_pos # None
    /\ scroll_offset # [x |-> 0, y |-> 0]
    /\ ~CursorInsideWindow

\* C14: only a resize event changes the viewport; a step that handles a keyboard
\* or mouse-wheel event leaves the viewport origin and size as they were.
C14_OnlyResizeChangesViewport ==
    [][text'.type # "ResizeEvent" => viewport' = viewport]_vars

C14_Witness ==
    /\ text.type \in {"KeyboardEvent", "MouseWheelEvent"}
    /\ LastCommand # "none"
    /\ viewport = [pos |-> [x |-> 0, y |-> 0], size |-> [w |-> MaxView, h |-> 1]]
    /\ scroll_offset # [x |-> 0, y |-> 0]

\* C15: after a resize to (w, h) the cursor column is min(old column,
\* w div ceil(cell width)) and the row is min(old row, h div ceil(cell height)),
\* cell metrics rounded up to whole pixels; neither coordinate is larger than
\* before, and the viewport size is (w, h).
C15_ResizeClampsCursor ==
    text.type = "ResizeEvent" =>
        LET ceil_w == -((-cell_size.w) \div 2)
            ceil_h == -((-cell_size.h) \div 2)
        IN /\ cursor_pos.x = Min(prev.cursor_pos.x, text.new_size.w \div ceil_w)
           /\ cursor_pos.y = Min(prev.cursor_pos.y, text.new_size.h \div ceil_h)
           /\ cursor_pos.x <= prev.cursor_pos.x
           /\ cursor_pos.y <= prev.cursor_pos.y
           /\ viewport.size = text.new_size

C15_Witness ==
    /\ text.type = "ResizeEvent"
    /\ cursor_pos.x < prev.cursor_pos.x
    /\ cursor_pos.y < prev.cursor_pos.y

\* C16: a step that handles a key-release event, whatever its key or text,
\* executes no command: cursor position, sticky column, scroll offset and
\* viewport are all as they were.
C16_KeyReleaseChangesNothing ==
    [][(/\ text'.type = "KeyboardEvent"
        /\ text'.state = "Released"
        /\ ~panicked')
       => UNCHANGED <<cursor_pos, cursor_previous_line_x_pos, scroll_offset, viewport>>]_vars

C16_Witness ==
    /\ text = KeyEvent("Released", "Other", Some("j"))
    /\ cursor_pos.y + 1 < total_lines
    /\ cursor_pos = prev.cursor_pos
    /\ cursor_previous_line_x_pos = None

\* C17: a step that handles a key press other than an arrow key executes the
\* command of the key: Home and "0" MoveCursorToStartOfLine, End and "$"
\* MoveCursorToEndOfLine, PageUp and PageDown the page moves, "h", "j", "k", "l"
\* MoveCursorLeftWrap, MoveCursorDown, MoveCursorUp, MoveCursorRightWrap, each
\* with its whole effect on cursor, sticky column and scroll offset; a press of
\* any other key executes no command and leaves the three as they were.
C17_KeyPressMapping ==
    [][(/\ text'.type = "KeyboardEvent"
        /\ text'.state = "Pressed"
        /\ text'.physical_key \notin {"ArrowDown", "ArrowUp", "ArrowLeft", "ArrowRight"}
        /\ ~panicked')
       => LET key == text'.physical_key
              typed == text'.text
              tag == IF key = "Home" \/ (key = "Other" /\ typed = Some("0"))
                         THEN "MoveCursorToStartOfLine"
                     ELSE IF key = "End" \/ (key = "Other" /\ typed = Some("$"))
                         THEN "MoveCursorToEndOfLine"
                     ELSE IF key = "PageUp" THEN "MoveCursorUpOneViewPage"
                     ELSE IF key = "PageDown" THEN "MoveCursorDownOneViewPage"
                     ELSE IF typed = Some("h") THEN "MoveCursorLeftWrap"
                     ELSE IF typed = Some("j") THEN "MoveCursorDown"
                     ELSE IF typed = Some("k") THEN "MoveCursorUp"
                     ELSE IF typed = Some("l") THEN "MoveCursorRightWrap"
                     ELSE "none"
          IN IF tag = "none"
             THEN UNCHANGED <<cursor_pos, cursor_previous_line_x_pos, scroll_offset>>
             ELSE /\ cursor_pos' = StickyCursor(Move(tag), MoveCursor(Move(tag), cursor_pos),
                                                 cursor_pos, cursor_previous_line_x_pos)
                  /\ cursor_previous_line_x_pos' =
                         StickyColumn(Move(tag), cursor_pos, cursor_previous_line_x_pos)
                  /\ scroll_offset' = AdjustScroll(cursor_pos', viewport, scroll_offset)]_vars

C17_Witness ==
    /\ text = KeyEvent("Pressed", "Other", Some("$"))
    /\ prev.cursor_pos.x = 0
    /\ cursor_pos.x = LastColumn(cursor_pos.y)
    /\ cursor_pos.x > 0

\* C18: a step that handles an arrow-key press changes the scroll offset by one
\* pixel: ArrowDown and ArrowUp add +1 and -1 to y, ArrowRight and ArrowLeft add
\* +1 and -1 to x; the other axis and the cursor stay as they were.
C18_ArrowKeysNudgeScroll ==
    [][(/\ text'.type = "KeyboardEvent"
        /\ text'.state = "Pressed"
        /\ text'.physical_key \in {"ArrowDown", "ArrowUp", "ArrowLeft", "ArrowRight"}
        /\ ~panicked')
       => LET key == text'.physical_key
              dx == IF key = "ArrowRight" THEN 1 ELSE IF key = "ArrowLeft" THEN -1 ELSE 0
              dy == IF key = "ArrowDown" THEN 1 ELSE IF key = "ArrowUp" THEN -1 ELSE 0
          IN /\ scroll_offset'.x = scroll_offset.x + Units(dx)
             /\ scroll_offset'.y = scroll_offset.y + Units(dy)
             /\ cursor_pos' = cursor_pos]_vars

C18_Witness ==
    /\ text = KeyEvent("Pressed", "ArrowLeft", None)
    /\ scroll_offset = [x |-> -Units(1), y |-> 0]
    /\ cursor_pos = prev.cursor_pos
    /\ total_lines > 0

\* C19: a step that handles a mouse-wheel event leaves the cursor as it was; a
\* line delta (right, down) of whole lines adds (-right * cell width,
\* -down * cell height) to the scroll offset, and a pixel delta (x, y) adds
\* (x, y), with no sign inversion.
C19_WheelScrolls ==
    [][(text'.type = "MouseWheelEvent" /\ ~panicked')
       => LET delta == text'.delta
          IN /\ cursor_pos' = cursor_pos
             /\ (delta.kind = "LineDelta" /\ delta.x % 2 = 0 /\ delta.y % 2 = 0)
                => /\ scroll_offset'.x = scroll_offset.x - (delta.x \div 2) * cell_size.w
                   /\ scroll_offset'.y = scroll_offset.y - (delta.y \div 2) * cell_size.h
             /\ delta.kind = "PixelDelta"
                => /\ scroll_offset'.x = scroll_offset.x + delta.x
                   /\ scroll_offset'.y = scroll_offset.y + delta.y]_vars

C19_Witness ==
    /\ text.type = "MouseWheelEvent"
    /\ text.delta = [kind |-> "LineDelta", x |-> 0, y |-> 2]
    /\ scroll_offset.y < 0
    /\ cursor_pos = prev.cursor_pos

\* C20: on a non-empty buffer MoveCursorUp sets the row to max(row - 1, 0) and
\* MoveCursorDown sets it to min(row + 1, line_count - 1); MoveCursorUp at row 0
\* and MoveCursorDown at the last row leave the row as it was.
C20_VerticalStepClamps ==
    total_lines > 0 =>
        /\ LastCommand = "MoveCursorUp" =>
              /\ cursor_pos.y = Max(prev.cursor_pos.y - 1, 0)
              /\ prev.cursor_pos.y = 0 => cursor_pos.y = 0
        /\ LastCommand = "MoveCursorDown" =>
              /\ cursor_pos.y = Min(prev.cursor_pos.y + 1, total_lines - 1)
              /\ prev.cursor_pos.y = total_lines - 1 => cursor_pos.y = prev.cursor_pos.y

C20_Witness ==
    /\ total_lines > 1
    /\ LastCommand = "MoveCursorDown"
    /\ prev.cursor_pos.y = total_lines - 1
    /\ cursor_pos.y = total_lines - 1

\* C21: with P the whole number of cells in the height of the current viewport,
\* MoveCursorUpOneViewPage sets the row to max(row - P, 0) and
\* MoveCursorDownOneViewPage sets it to min(row + P, line_count - 1), row 0 on an
\* empty buffer; with P = 0, as for the initial 1 x 1 viewport, neither changes
\* the row.
C21_PageMoves ==
    LET P == (2 * viewport.size.h) \div cell_size.h
        last_row == IF total_lines = 0 THEN 0 ELSE total_lines - 1
    IN /\ LastCommand = "MoveCursorUpOneViewPage" =>
             cursor_pos.y = Max(prev.cursor_pos.y - P, 0)
       /\ LastCommand = "MoveCursorDownOneViewPage" =>
             cursor_pos.y = Min(prev.cursor_pos.y + P, last_row)
       /\ (LastCommand \in {"MoveCursorUpOneViewPage", "MoveCursorDownOneViewPage"} /\ P = 0) =>
             cursor_pos.y = prev.cursor_pos.y

\* C22: MoveCursorToStartOfLine sets the column to 0 and MoveCursorToEndOfLine
\* sets it to line_length(row) - 1, 0 when the line is empty or the row is out
\* of range; both leave the row as it was.
C22_LineBoundaryMoves ==
    /\ LastCommand = "MoveCursorToStartOfLine" =>
          /\ cursor_pos.x = 0
          /\ cursor_pos.y = prev.cursor_pos.y
    /\ LastCommand = "MoveCursorToEndOfLine" =>
          /\ cursor_pos.y = prev.cursor_pos.y
          /\ cursor_pos.x =
                IF cursor_pos.y + 1 > Len(lines) \/ Len(lines[cursor_pos.y + 1]) = 0
                THEN 0
                ELSE Len(lines[cursor_pos.y + 1]) - 1

C22_Witness ==
    /\ LastCommand = "MoveCursorToStartOfLine"
    /\ prev.cursor_pos.x > 0
    /\ prev.cursor_pos.y > 0
    /\ cursor_pos = [x |-> 0, y |-> prev.cursor_pos.y]

\* the lines of a buffer written out with "\n" between them
RECURSIVE JoinedLines(_)
JoinedLines(ls) ==
    IF ls = <<>> THEN <<>>
    ELSE IF Len(ls) = 1 THEN ls[1]
    ELSE ls[1] \o <<"\n">> \o JoinedLines(Tail(ls))

\* a file content with every "\r\n" written as "\n"
RECURSIVE UnixEndings(_)
UnixEndings(content) ==
    IF content = <<>> THEN <<>>
    ELSE IF Len(content) >= 2 /\ content[1] = "\r" /\ content[2] = "\n"
         THEN UnixEndings(Tail(content))
         ELSE <<content[1]>> \o UnixEndings(Tail(content))

\* C23: Buffer::load of a path that cannot be read gives a buffer of zero lines
\* that records the path, and the construction goes on with no error; a load
\* that succeeds records the path and gives the content split at its line
\* breaks: as many lines as the content has line breaks, plus one when text
\* follows the last break, and the lines joined give the content back without
\* its final line break.
C23_LoadFailsOpen ==
    (/\ startup.stage = "loaded"
     /\ startup.filepath_arg # None
     /\ startup.disk.kind # "directory")
    => /\ file_path = startup.filepath_arg
       /\ ~panicked
       /\ startup.disk.kind # "file" => lines = <<>>
       /\ startup.disk.kind = "file" =>
             LET content == startup.disk.content
                 unix == UnixEndings(content)
                 breaks == Cardinality({i \in 1 .. Len(content) : content[i] = "\n"})
                 open_end == content # <<>> /\ content[Len(content)] # "\n"
             IN /\ Len(lines) = breaks + (IF open_end THEN 1 ELSE 0)
                /\ JoinedLines(lines) =
                       (IF open_end \/ unix = <<>> THEN unix ELSE SubSeq(unix, 1, Len(unix) - 1))

C23_Witness ==
    /\ startup.stage = "loaded"
    /\ startup.filepath_arg = Some("g")
    /\ startup.disk.kind = "missing"
    /\ lines = <<>>
    /\ file_path = Some("g")

\* C25: the scroll adjustment resolves the two axes independently: for the
\* cursor, viewport and scroll offset of every reachable state, the resulting
\* scroll offset x is the same whatever the cursor row, the viewport y-origin and
\* height and the previous scroll offset y are, and the resulting scroll offset y
\* is the same whatever the corresponding horizontal inputs are.
C25_AxesIndependent ==
    LET adjusted == AdjustScroll(cursor_pos, viewport, scroll_offset)
    IN \A cell \in {0, MaxRow} : \A origin \in {0, 1} : \A edge \in ViewEdges :
       \A scrolled \in {-MaxScroll, 0, MaxScroll} :
          /\ AdjustScroll([cursor_pos EXCEPT !.y = cell],
                          [viewport EXCEPT !.pos.y = origin, !.size.h = edge],
                          [scroll_offset EXCEPT !.y = scrolled]).x = adjusted.x
          /\ AdjustScroll([cursor_pos EXCEPT !.x = cell],
                          [viewport EXCEPT !.pos.x = origin, !.size.w = edge],
                          [scroll_offset EXCEPT !.x = scrolled]).y = adjusted.y

C25_Witness ==
    /\ LastCommand \in MoveCommands
    /\ cursor_pos.x > 0 /\ cursor_pos.y > 0
    /\ scroll_offset.x > 0 /\ scroll_offset.y > 0
    /\ scroll_offset = AdjustScroll(cursor_pos, viewport, scroll_offset)
    /\ AdjustScroll([cursor_pos EXCEPT !.y = 0], viewport, scroll_offset).y # scroll_offset.y
    /\ AdjustScroll([cursor_pos EXCEPT !.x = 0], viewport, scroll_offset).x # scroll_offset.x

\* C26: after a vertical move that lands on a row of line length L the sticky
\* column is set and the cursor column is min(sticky column, max(L - 1, 0)); and
\* whenever the sticky column is set, resizes inside the run included, the
\* column is at most the sticky column.
C26_ColumnIsStickyOrLineEnd ==
    /\ LastCommand \in VerticalCommands =>
          /\ cursor_previous_line_x_pos # None
          /\ cursor_pos.x = Min(cursor_previous_line_x_pos[1],
                                Max(line_len_at(cursor_pos.y) - 1, 0))
    /\ cursor_previous_line_x_pos # None => cursor_pos.x <= cursor_previous_line_x_pos[1]

C26_Witness ==
    /\ text.type = "ResizeEvent"
    /\ cursor_previous_line_x_pos # None
    /\ cursor_pos.x < cursor_previous_line_x_pos[1]
    /\ cursor_pos.x < prev.cursor_pos.x

\* C27: a step that executes a cursor command moves the window only as far as
\* needed. On an axis where the viewport is at least a cell wide (high): if the
\* cursor box, after the cursor has moved, lies within the window the step
\* starts with, edges touching allowed, the scroll offset on that axis is as it
\* was; if the box sticks out past the right (bottom) edge the offset grows by
\* just the distance between the two right (bottom) edges, and if it sticks out
\* before the left (top) edge the offset shrinks by just the distance between
\* the two left (top) edges. With the viewport at least a cell in both
\* dimensions and the box within the window, the scroll offset is unchanged.
C27_ScrollOnlyWhenNeeded ==
    [][(/\ ~panicked'
        /\ text'.type = "KeyboardEvent"
        /\ LastCommand' \in MoveCommands)
       => /\ Units(viewport.size.w) >= cell_size.w =>
                LET cur_left == cursor_pos'.x * cell_size.w
                    cur_right == cur_left + cell_size.w
                    win_left == Units(viewport.pos.x) + scroll_offset.x
                    win_right == win_left + Units(viewport.size.w)
                IN IF cur_right > win_right
                   THEN scroll_offset'.x - scroll_offset.x = cur_right - win_right
                   ELSE IF cur_left < win_left
                        THEN scroll_offset'.x - scroll_offset.x = cur_left - win_left
                        ELSE scroll_offset'.x = scroll_offset.x
          /\ Units(viewport.size.h) >= cell_size.h =>
                LET cur_top == cursor_pos'.y * cell_size.h
                    cur_bottom == cur_top + cell_size.h
                    win_top == Units(viewport.pos.y) + scroll_offset.y
                    win_bottom == win_top + Units(viewport.size.h)
                IN IF cur_bottom > win_bottom
                   THEN scroll_offset'.y - scroll_offset.y = cur_bottom - win_bottom
                   ELSE IF cur_top < win_top
                        THEN scroll_offset'.y - scroll_offset.y = cur_top - win_top
                        ELSE scroll_offset'.y = scroll_offset.y]_vars

C27_Witness ==
    /\ LastCommand \in MoveCommands
    /\ ViewportHoldsACell
    /\ cursor_pos = [x |-> 0, y |-> 0]
    /\ scroll_offset = [x |-> -1, y |-> 0]

\* C28: on a non-empty buffer with the cursor in bounds, MoveCursorRightWrap
\* followed by MoveCursorLeftWrap gives the cursor position back unless the
\* cursor is on the last column of the last row, and MoveCursorLeftWrap followed
\* by MoveCursorRightWrap gives it back unless the cursor is at row 0, column 0.
C28_WrapMovesAreInverse ==
    (/\ total_lines > 0
     /\ cursor_pos.y < total_lines
     /\ cursor_pos.x <= LastColumn(cursor_pos.y))
    => /\ ~(cursor_pos.y = total_lines - 1 /\ cursor_pos.x = LastColumn(cursor_pos.y))
          => MoveCursorLeftWrap(MoveCursorRightWrap(cursor_pos)) = cursor_pos
       /\ cursor_pos # [x |-> 0, y |-> 0]
          => MoveCursorRightWrap(MoveCursorLeftWrap(cursor_pos)) = cursor_pos

C28_Witness ==
    /\ LastCommand = "MoveCursorLeftWrap"
    /\ prev.cursor_pos = [x |-> 0, y |-> cursor_pos.y + 1]
    /\ cursor_pos.x = LastColumn(cursor_pos.y)
    /\ cursor_pos.x > 0
    /\ MoveCursorRightWrap(cursor_pos) = prev.cursor_pos
    /\ MoveCursorLeftWrap(MoveCursorRightWrap(cursor_pos)) = cursor_pos

\* the number of cursor positions on the rows before a row, an empty line
\* counting for one
RECURSIVE PositionsBefore(_)
PositionsBefore(row) ==
    IF row = 0 THEN 0 ELSE PositionsBefore(row - 1) + Max(line_len_at(row - 1), 1)

\* C29: on a non-empty buffer, n MoveCursorRightWrap commands from row 0,
\* column 0 leave the cursor on the n-th position of the buffer read row by row,
\* so the rows are visited in increasing order; after the sum over the lines of
\* max(line length, 1), minus 1, commands the cursor is on the last valid column
\* of the last row, and every further command leaves it there.
C29_RightWrapTraversal ==
    (total_lines > 0 /\ streak.tag = "MoveCursorRightWrap")
    => LET steps == PositionsBefore(total_lines) - 1
           position == PositionsBefore(cursor_pos.y) + cursor_pos.x
       IN /\ cursor_pos.y < total_lines
          /\ cursor_pos.x <= LastColumn(cursor_pos.y)
          /\ streak.n < MaxStreak => position = Min(streak.n, steps)
          /\ streak.n = MaxStreak => position >= Min(streak.n, steps)
          /\ streak.n >= steps =>
                cursor_pos = [x |-> LastColumn(total_lines - 1), y |-> total_lines - 1]

C29_Witness ==
    /\ total_lines = MaxLines
    /\ streak.tag = "MoveCursorRightWrap"
    /\ streak.n > PositionsBefore(total_lines)
    /\ PositionsBefore(total_lines) = MaxLines * MaxLineLen
    /\ cursor_pos = [x |-> MaxLineLen - 1, y |-> MaxLines - 1]

\* C24: the buffer is read-only after construction: no step of the application
\* (a key, wheel, resize or redraw event, handled or dropped, a close request, a
\* suspension or a resumption) changes the number of lines, the content of a
\* line or the recorded path
C24_BufferReadOnly ==
    [][/\ Len(lines') = Len(lines)
       /\ \A row \in 1 .. Len(lines) : lines'[row] = lines[row]
       /\ file_path' = file_path]_vars

\* a loaded buffer with lines, after a resize, a key press that moved the cursor
\* and a wheel event that scrolled, and the frame drawn since
C24_Witness ==
    /\ lines # <<>>
    /\ file_path # None
    /\ state.tag = "Active"
    /\ delivered = Some([window_id |-> state.window, type |-> "RedrawRequested"])
    /\ ~redraw_requested
    /\ cursor_pos.x > 0
    /\ scroll_offset.y # 0
    /\ viewport.size.w = MaxView

\* C30: a window event delivered while the application is suspended, or for a
\* window that is not its own, never reaches the handler: the cursor, the sticky
\* column, the scroll offset, the viewport and the displayed event are unchanged,
\* no redraw is requested and the event loop is not asked to exit
C30_OnlyActiveOwnWindow ==
    [][(/\ delivered' # None
        /\ state' = state
        /\ ~(state.tag = "Active" /\ state.window = delivered'[1].window_id))
       => /\ UNCHANGED <<cursor_pos, cursor_previous_line_x_pos, scroll_offset, viewport, text>>
          /\ UNCHANGED <<panicked, redraw_requested, exiting>>]_vars

\* a key event has been handled and a redraw requested, and the last event is a
\* close request for another window, which did not end the event loop
C30_Witness ==
    /\ state.tag = "Active"
    /\ redraw_requested
    /\ cursor_pos # [x |-> 0, y |-> 0]
    /\ delivered # None
    /\ delivered[1].type = "CloseRequested"
    /\ delivered[1].window_id # state.window
    /\ ~exiting

\* C31: the window is cached across suspension and resumption: a window is
\* created at most once, by the resumption that finds no cached window (the
\* first one); a suspension of the active application stores its window; the
\* next resumption makes that same window active, creates no window and creates
\* a surface; a step that leaves the application active, or leaves it suspended,
\* keeps the state and creates neither a window nor a surface
C31_WindowCachedAcrossSuspend ==
    [][/\ windows_created' <= 1
       /\ windows_created' # windows_created
          => /\ state = AppContext_new
             /\ windows_created = 0
       /\ (state.tag = "Active" /\ state'.tag = "Suspended")
          => /\ state'.cached_window = Some(state.window)
             /\ windows_created' = windows_created
             /\ ~surface_created'
       /\ (state.tag = "Suspended" /\ state'.tag = "Active")
          => /\ surface_created'
             /\ state.cached_window # None
                => /\ state'.window = state.cached_window[1]
                   /\ windows_created' = windows_created
       /\ state'.tag = state.tag
          => /\ state' = state
             /\ windows_created' = windows_created
             /\ ~surface_created']_vars

\* the application has been resumed, suspended and resumed again: it is active
\* on the one window ever created, with the surface just created, after a key
\* press was handled in its first active period
C31_Witness ==
    /\ state = Active(create_winit_window)
    /\ windows_created = 1
    /\ surface_created
    /\ delivered # None
    /\ delivered[1].type = "KeyboardInput"
    /\ cursor_pos.x > 0

\* C32: a step that handles a key or wheel event (delivered while active, for
\* the window of the application) passes the event to the handler, which
\* displays it and executes its command exactly once, and ends with a redraw
\* requested for the window
C32_HandledEventRequestsRedraw ==
    [][(/\ state.tag = "Active"
        /\ state' = state
        /\ delivered' # None
        /\ delivered'[1].window_id = state.window
        /\ delivered'[1].type \in {"KeyboardInput", "MouseWheel"})
       => /\ redraw_requested'
          /\ text'.type = IF delivered'[1].type = "KeyboardInput"
                          THEN "KeyboardEvent" ELSE "MouseWheelEvent"
          /\ EventCommands(text') # <<>>
             => streak' = StreakAfter(EventCommands(text')[1])]_vars

====
